---- MODULE Spec2Model ----
(***************************************************************************)
(* DocView mini-app (src/app.js): the session state machine, the action    *)
(* dispatcher and the export strategy selector.                            *)
(*                                                                         *)
(* Every async function of app.js is a coroutine.  A coroutine runs        *)
(* without interruption from one await to the next, so each action below   *)
(* is one such run: the call of a handler up to its first await, or the    *)
(* settling of the promise it awaits up to the next await or the return.   *)
(*                                                                         *)
(* A text is a sequence of runs [ch, n]: n copies of the character ch.     *)
(* Characters outside ASCII are written by their code point ("U+044F").    *)
(* The messages of app.js are transliterated to ASCII.                     *)
(***************************************************************************)
EXTENDS Integers, Sequences, FiniteSets, Bags, TLC

\* ---------------------------------------------------------------- bounds
\* Coroutines of runAction / downloadDocx / copyText that may be pending at once.
MaxPending == 2

\* ---------------------------------------------------------------- texts
Empty == << >>
Short == <<[ch |-> "a", n |-> 5], [ch |-> " ", n |-> 1], [ch |-> "U+044F", n |-> 5]>>
\* The URL of downloadDocx for the session ?token=tok&api=https://h is 32
\* characters before the text: Fits makes it 8000 characters long, Long 8001.
Fits  == <<[ch |-> "a", n |-> 7968]>>
Long  == <<[ch |-> "a", n |-> 7969]>>
Lone  == <<[ch |-> "a", n |-> 2], [ch |-> "U+D800", n |-> 1]>>
Texts == {Empty, Short, Fits, Long, Lone}

\* ECMAScript encodeURIComponent, per character: the unreserved characters
\* stay, every other one becomes %XX for each byte of its UTF-8 encoding,
\* and a lone surrogate raises URIError (the empty string stands for that).
EncodeChar(ch) ==
    CASE ch = "a"      -> "a"
      [] ch = " "      -> "%20"
      [] ch = "U+044F" -> "%D1%8F"
      [] ch = "U+D800" -> ""

Malformed(t) == \E i \in DOMAIN t : EncodeChar(t[i].ch) = ""

encodeURIComponent(t) == [i \in DOMAIN t |-> [ch |-> EncodeChar(t[i].ch), n |-> t[i].n]]

RECURSIVE Length(_)
\* String.prototype.length of a string given as runs of (possibly multi-character) units.
Length(t) == IF t = << >> THEN 0 ELSE Len(Head(t).ch) * Head(t).n + Length(Tail(t))

\* ---------------------------------------------------------------- session parameters
\* window.location.search as URLSearchParams: a function from the keys present.
ParamSets ==
    { [token |-> "tok", api |-> "https://h"],
      [api |-> "https://h"],
      [token |-> "tok"],
      [token |-> "", api |-> "https://h"] }

VARIABLES
    params,          \* URLSearchParams(window.location.search)
    loadingDisplay,  \* $loading.style.display
    errorDisplay,    \* $error.style.display
    appDisplay,      \* $app.style.display
    errorMsg,        \* $errorMsg.textContent
    editorValue,     \* $editor.value: the current text
    originalText,
    currentMode,
    isProcessing,
    btnDisabled,     \* b.disabled of the four buttons (set together)
    btnProcessing,   \* the buttons carrying the class 'processing'
    initTask,        \* the coroutine of init()
    tasks,           \* the bag of pending coroutines of runAction, downloadDocx, copyText
    ev,              \* the latest run: which handler, which phase, the coroutine as it ended
    sent,            \* the requests the latest run handed to fetch
    notified,        \* the showToast calls of the latest run
    saved            \* the downloadBlob calls of the latest run

vars == <<params, loadingDisplay, errorDisplay, appDisplay, errorMsg, editorValue,
          originalText, currentMode, isProcessing, btnDisabled, btnProcessing,
          initTask, tasks, ev, sent, notified, saved>>

dom     == <<loadingDisplay, errorDisplay, appDisplay, errorMsg>>
session == <<params, originalText, currentMode>>
buttons == <<isProcessing, btnDisabled, btnProcessing>>

\* const TOKEN = params.get('token'): null when the key is missing.
HasToken == "token" \in DOMAIN params
\* !TOKEN
TokenFalsy == ~HasToken \/ params.token = ""
\* `${TOKEN}`
TOKEN == IF HasToken THEN params.token ELSE "null"
\* const API_BASE = params.get('api') || ''
API_BASE == IF "api" \in DOMAIN params THEN params.api ELSE ""

\* ---------------------------------------------------------------- the remote job service
ErrorCodes == {"invalid_token", "not_found", "llm_error"}
Modes      == {"tldr"}
FailStatus == {404, 500}

NoResp == [kind |-> "none", ok |-> FALSE, status |-> 0]
\* What fetch resolves with: the status line (the body is read by a later await).
Responses ==
    {[kind |-> "response", ok |-> TRUE, status |-> 200]}
    \cup {[kind |-> "response", ok |-> FALSE, status |-> s] : s \in FailStatus}

\* A JSON object is a function from the field names it has.
Objects ==
    { << >> }
    \cup {[text |-> t] : t \in Texts}
    \cup {[mode |-> m] : m \in Modes}
    \cup {[text |-> Short, mode |-> m] : m \in Modes}
    \cup {[error |-> c] : c \in ErrorCodes}

\* What resp.json() settles with: a rejection (no body, or not JSON), null, or an object.
JsonResults ==
    {[kind |-> "invalid", data |-> << >>], [kind |-> "null", data |-> << >>]}
    \cup {[kind |-> "object", data |-> d] : d \in Objects}

\* e.message of the errors the platform raises.
FETCH_FAILED  == "Failed to fetch"
JSON_INVALID  == "Unexpected end of JSON input"
NULL_ERROR    == "Cannot read properties of null (reading 'error')"
NULL_TEXT     == "Cannot read properties of null (reading 'text')"
URI_MALFORMED == "URI malformed"
\* throw new Error('Download failed')
DOWNLOAD_FAILED == "Download failed"

\* data.field || ''
TextOr(data) == IF "text" \in DOMAIN data THEN data.text ELSE Empty
ModeOr(data) == IF "mode" \in DOMAIN data THEN data.mode ELSE ""

\* Mutant: the error body is not read.
ThrownCode_statusOnly(resp, json) == "HTTP " \o ToString(resp.status)

\* throw new Error(data.error || `HTTP ${resp.status}`), data being
\* await resp.json().catch(() => ({})); reading .error of null raises TypeError.
ThrownCode(resp, json) ==
    CASE json.kind = "null" -> NULL_ERROR
      [] json.kind = "object" /\ "error" \in DOMAIN json.data /\ json.data.error # "" -> json.data.error
      [] OTHER -> "HTTP " \o ToString(resp.status)

\* How a call of apiGet / apiPost ends: it returns, or it throws an error
\* with this message; NoApi while it has not ended.
Returned        == [returned |-> TRUE, error |-> ""]
Thrown(message) == [returned |-> FALSE, error |-> message]
NoApi           == [returned |-> FALSE, error |-> ""]

\* apiGet for the response resp whose error body reads as json:
\* if (!resp.ok) throw ...; return resp
apiGet(resp, json) ==
    IF ~resp.ok THEN Thrown(ThrownCode(resp, json)) ELSE Returned

\* apiPost for the response resp whose body reads as json:
\* if (!resp.ok) throw ...; return resp.json()
apiPost(resp, json) ==
    IF ~resp.ok THEN Thrown(ThrownCode(resp, json))
    ELSE IF json.kind = "invalid" THEN Thrown(JSON_INVALID)
    ELSE Returned

\* ---------------------------------------------------------------- requests
Request(method, url, query, body) ==
    [method |-> method, url |-> url, query |-> query, body |-> body]

\* ---------------------------------------------------------------- messages
MSG_NO_TOKEN     == "Otsutstvuet token dostupa. Otkroyte ssylku iz bota."
MSG_LINK_EXPIRED == "Ssylka ustarela ili nedeystvitelna. Obrabotayte dokument zanovo."
MSG_NOT_FOUND    == "Rezultat ne nayden. Vozmozhno, on uzhe udalyon."
MSG_LOAD_FAILED  == "Oshibka zagruzki: "

\* Mutant: the not_found branch is lost.
LoadErrorMessage_noNotFound(message) ==
    IF message = "invalid_token" THEN MSG_LINK_EXPIRED ELSE MSG_LOAD_FAILED \o message

\* The argument of showError in init's catch.
LoadErrorMessage(message) ==
    IF message = "invalid_token" THEN MSG_LINK_EXPIRED
    ELSE IF message = "not_found" THEN MSG_NOT_FOUND
    ELSE MSG_LOAD_FAILED \o message

\* ---------------------------------------------------------------- latest run
\* op(action) ran; invoked: the run began with the call of the handler (it is
\* not the resumption of a pending coroutine); phase: "dropped" by the guard,
\* "pending" at an await, or "done"; task: the coroutine as it returned.
Ev(op, action, invoked, phase, task) ==
    [op |-> op, action |-> action, invoked |-> invoked, phase |-> phase, task |-> task]
NoCall == << >>
NoJson == [kind |-> "none", data |-> << >>]

\* ---------------------------------------------------------------- construction
Init ==
    /\ params \in ParamSets
    /\ loadingDisplay = "flex"
    /\ errorDisplay = "none"
    /\ appDisplay = "none"
    /\ errorMsg = ""
    /\ editorValue = Empty
    /\ originalText = Empty
    /\ currentMode = ""
    /\ isProcessing = FALSE
    /\ btnDisabled = FALSE
    /\ btnProcessing = {}
    /\ initTask = [pc |-> "boot", resp |-> NoResp, reqs |-> << >>, error |-> ""]
    /\ tasks = EmptyBag
    /\ ev = Ev("script", "", FALSE, "pending", NoCall)
    /\ sent = << >>
    /\ notified = << >>
    /\ saved = << >>

\* ---------------------------------------------------------------- UI helpers
\* Mutant: the loading panel is left on screen.
showError_loadingStays(msg) ==
    /\ errorMsg' = msg
    /\ errorDisplay' = "flex"
    /\ UNCHANGED <<loadingDisplay, appDisplay>>

showError(msg) ==
    /\ loadingDisplay' = "none"
    /\ errorMsg' = msg
    /\ errorDisplay' = "flex"
    /\ UNCHANGED appDisplay

\* ---------------------------------------------------------------- init
\* Mutant: the check forgets the API base.
MissingAccess_tokenOnly == TokenFalsy

\* if (!TOKEN || !API_BASE)
MissingAccess == TokenFalsy \/ API_BASE = ""

\* The coroutine of init as it returned: the response and body it got, the
\* message of the error it caught.
InitCall(task, api, json, message) ==
    [op |-> "init", resp |-> task.resp, json |-> json, api |-> api, reqs |-> task.reqs,
     error |-> message]

\* init() up to its first await: the precondition check, then apiGet's fetch.
init ==
    /\ initTask.pc = "boot"
    /\ IF MissingAccess
       THEN /\ showError(MSG_NO_TOKEN)
            /\ initTask' = [initTask EXCEPT !.pc = "done", !.resp = NoResp]
            /\ sent' = << >>
            /\ ev' = Ev("init", "", TRUE, "done", InitCall(initTask, NoApi, NoJson, ""))
       ELSE /\ LET req == Request("GET", API_BASE \o "/api/job/" \o TOKEN, << >>, << >>)
               IN /\ initTask' = [initTask EXCEPT !.pc = "fetch", !.reqs = Append(@, req)]
                  /\ sent' = <<req>>
            /\ ev' = Ev("init", "", TRUE, "pending", NoCall)
            /\ UNCHANGED dom
    /\ notified' = << >>
    /\ saved' = << >>
    /\ UNCHANGED <<session, editorValue, buttons, tasks>>

\* init's catch (e): showError of the mapped message.
initCatch(api, json, message) ==
    /\ showError(LoadErrorMessage(message))
    /\ initTask' = [initTask EXCEPT !.pc = "done", !.resp = NoResp, !.error = message]
    /\ ev' = Ev("init", "", FALSE, "done", InitCall(initTask, api, json, message))
    /\ UNCHANGED <<session, editorValue>>

\* apiGet's fetch settles: a rejection, a non-success response (whose error
\* body is read next), or a success response (whose JSON body is read next).
init_fetch ==
    /\ initTask.pc = "fetch"
    /\ \/ initCatch(Thrown(FETCH_FAILED), NoJson, FETCH_FAILED)
       \/ \E resp \in Responses :
            /\ initTask' = [initTask EXCEPT !.pc = "json", !.resp = resp]
            /\ ev' = Ev("init", "", FALSE, "pending", NoCall)
            /\ UNCHANGED <<dom, session, editorValue>>
    /\ sent' = << >>
    /\ notified' = << >>
    /\ saved' = << >>
    /\ UNCHANGED <<buttons, tasks>>

\* resp.json() settles: of the error body in apiGet, or of the job in init.
init_json ==
    /\ initTask.pc = "json"
    /\ \E json \in JsonResults :
         LET api == apiGet(initTask.resp, json) IN
         IF ~api.returned
         THEN initCatch(api, json, api.error)
         ELSE CASE json.kind = "invalid" -> initCatch(api, json, JSON_INVALID)
                [] json.kind = "null" -> initCatch(api, json, NULL_TEXT)
                [] OTHER ->
                     /\ originalText' = TextOr(json.data)
                     /\ currentMode' = ModeOr(json.data)
                     /\ editorValue' = TextOr(json.data)
                     /\ loadingDisplay' = "none"
                     /\ appDisplay' = "flex"
                     /\ initTask' = [initTask EXCEPT !.pc = "done", !.resp = NoResp]
                     /\ ev' = Ev("init", "", FALSE, "done", InitCall(initTask, api, json, ""))
                     /\ UNCHANGED <<params, errorDisplay, errorMsg>>
    /\ sent' = << >>
    /\ notified' = << >>
    /\ saved' = << >>
    /\ UNCHANGED <<buttons, tasks>>

\* ---------------------------------------------------------------- notifications
Toast(text, type) == [text |-> text, type |-> type]

TOAST_COPIED       == Toast("(ok) Skopirovano!", "success")
TOAST_DOWNLOADED   == Toast("(doc) Fayl skachan!", "success")
TOAST_DOWNLOAD_ERR == Toast("(x) Oshibka skachivaniya", "error")
TOAST_LLM_ERROR    == Toast("(x) Oshibka obrabotki. Poprobuyte eshchyo raz.", "error")

\* the progress toast of runAction (label by action)
ProgressToast(action) ==
    Toast(IF action = "shorten" THEN "(wait) Sokrashchayu..." ELSE "(wait) Rasshiryayu...", "")

\* the success toast of runAction
SuccessToast(action) ==
    Toast(IF action = "shorten" THEN "(cut) Tekst sokrashchyon!" ELSE "(book) Tekst rasshiren!",
          "success")

\* Mutant: the raw message for every code.
ErrorToast_raw(message) == Toast("(x) " \o message, "error")

\* the toast of runAction's catch (e)
ErrorToast(message) ==
    IF message = "llm_error" THEN TOAST_LLM_ERROR ELSE Toast("(x) " \o message, "error")

\* ---------------------------------------------------------------- coroutines
Actions == {"shorten", "lengthen"}

\* action === 'shorten' ? $btnShorten : $btnLengthen
ActionButton(action) == IF action = "shorten" THEN "btnShorten" ELSE "btnLengthen"

Task(op, action, btn, pc, reqs, notes) ==
    [op |-> op, action |-> action, btn |-> btn, pc |-> pc, resp |-> NoResp,
     json |-> NoJson, api |-> NoApi, error |-> "", reqs |-> reqs, notes |-> notes,
     saves |-> 0, via |-> ""]

\* The pending coroutines with one more, one fewer, one moved on.
Spawn(t)       == tasks (+) SetToBag({t})
Remove(t)      == tasks (-) SetToBag({t})
Resume(t, new) == Remove(t) (+) SetToBag({new})
Pending        == BagToSet(tasks)

setProcessing(btn, processing) ==
    /\ isProcessing' = processing
    /\ btnProcessing' = IF processing THEN btnProcessing \cup {btn} ELSE btnProcessing \ {btn}
    /\ btnDisabled' = processing

\* Mutant: setProcessing disables the editor with the buttons.
ProcessingDisables_editorToo == {"btnCopy", "btnDocx", "btnShorten", "btnLengthen", "editor"}

\* [$btnCopy, $btnDocx, $btnShorten, $btnLengthen].forEach(b => b.disabled = processing)
ProcessingDisables == {"btnCopy", "btnDocx", "btnShorten", "btnLengthen"}

\* The elements whose disabled flag is set.
Disabled == IF btnDisabled THEN ProcessingDisables ELSE {}

\* if (isProcessing) return;
Dropped(op, action) ==
    /\ ev' = Ev(op, action, TRUE, "dropped", NoCall)
    /\ sent' = << >>
    /\ notified' = << >>
    /\ saved' = << >>
    /\ UNCHANGED <<dom, session, editorValue, buttons, initTask, tasks>>

\* The coroutine t returns: its finally block, if it has one, has run.
Return(t, task) ==
    /\ tasks' = Remove(t)
    /\ ev' = Ev(task.op, task.action, FALSE, "done", [task EXCEPT !.pc = "done"])

\* ---------------------------------------------------------------- runAction
\* Mutant: the text as loaded is sent, not the editor's.
ActionRequest_original(action) == [action |-> action, text |-> originalText]

\* The body of the POST: { action, text: $editor.value }
ActionRequest(action) == [action |-> action, text |-> editorValue]

\* Mutant: the result is applied without the test.
HasText_always(data) == TRUE

\* if (data.text)
HasText(data) == TextOr(data) # Empty

\* runAction past its guard, up to the await of apiPost's fetch.
runAction_start(action) ==
    /\ BagCardinality(tasks) < MaxPending
    /\ LET btn  == ActionButton(action)
           req  == Request("POST", API_BASE \o "/api/job/" \o TOKEN \o "/action", << >>,
                           <<ActionRequest(action)>>)
           note == ProgressToast(action)
       IN /\ setProcessing(btn, TRUE)
          /\ tasks' = Spawn(Task("runAction", action, btn, "fetch", <<req>>, <<note>>))
          /\ sent' = <<req>>
          /\ notified' = <<note>>
    /\ ev' = Ev("runAction", action, TRUE, "pending", NoCall)
    /\ saved' = << >>
    /\ UNCHANGED <<dom, session, editorValue, initTask>>

\* Mutant: no guard.
runAction_unguarded(action) == runAction_start(action)

runAction(action) ==
    IF isProcessing THEN Dropped("runAction", action) ELSE runAction_start(action)

\* Mutant: no finally block.
runAction_catch_noFinally(t, api, json, message) ==
    LET note == ErrorToast(message)
        task == [t EXCEPT !.api = api, !.json = json, !.error = message,
                          !.notes = Append(@, note)]
    IN /\ notified' = <<note>>
       /\ Return(t, task)
       /\ UNCHANGED <<editorValue, buttons>>

\* Mutant: the catch block puts the text as loaded back into the editor.
runAction_catch_restores(t, api, json, message) ==
    LET note == ErrorToast(message)
        task == [t EXCEPT !.api = api, !.json = json, !.error = message,
                          !.notes = Append(@, note)]
    IN /\ notified' = <<note>>
       /\ setProcessing(t.btn, FALSE)
       /\ Return(t, task)
       /\ editorValue' = originalText

\* Mutant: the catch block rolls the editor back to the text that was sent.
runAction_catch_rollback(t, api, json, message) ==
    LET note == ErrorToast(message)
        task == [t EXCEPT !.api = api, !.json = json, !.error = message,
                          !.notes = Append(@, note)]
    IN /\ notified' = <<note>>
       /\ setProcessing(t.btn, FALSE)
       /\ Return(t, task)
       /\ editorValue' = t.reqs[1].body[1].text

\* catch (e) { showToast(...) } finally { setProcessing(btn, false) }
runAction_catch(t, api, json, message) ==
    LET note == ErrorToast(message)
        task == [t EXCEPT !.api = api, !.json = json, !.error = message,
                          !.notes = Append(@, note)]
    IN /\ notified' = <<note>>
       /\ setProcessing(t.btn, FALSE)
       /\ Return(t, task)
       /\ UNCHANGED editorValue

\* apiPost's fetch settles.
runAction_fetch(t) ==
    /\ t.op = "runAction"
    /\ t.pc = "fetch"
    /\ \/ runAction_catch(t, Thrown(FETCH_FAILED), NoJson, FETCH_FAILED)
       \/ \E resp \in Responses :
            /\ tasks' = Resume(t, [t EXCEPT !.pc = "json", !.resp = resp])
            /\ ev' = Ev("runAction", t.action, FALSE, "pending", NoCall)
            /\ notified' = << >>
            /\ UNCHANGED <<editorValue, buttons>>
    /\ sent' = << >>
    /\ saved' = << >>
    /\ UNCHANGED <<dom, session, initTask>>

\* resp.json() settles: of the error body in apiPost, or of the result, which
\* runAction then applies.
runAction_json(t) ==
    /\ t.op = "runAction"
    /\ t.pc = "json"
    /\ \E json \in JsonResults :
         LET api == apiPost(t.resp, json) IN
         IF ~api.returned
         THEN runAction_catch(t, api, json, api.error)
         ELSE CASE json.kind = "null" -> runAction_catch(t, api, json, NULL_TEXT)
                [] OTHER ->
                     IF HasText(json.data)
                     THEN LET note == SuccessToast(t.action) IN
                          /\ editorValue' = TextOr(json.data)
                          /\ notified' = <<note>>
                          /\ setProcessing(t.btn, FALSE)
                          /\ Return(t, [t EXCEPT !.api = api, !.json = json,
                                                !.notes = Append(@, note)])
                     ELSE /\ notified' = << >>
                          /\ setProcessing(t.btn, FALSE)
                          /\ Return(t, [t EXCEPT !.api = api, !.json = json])
                          /\ UNCHANGED editorValue
    /\ sent' = << >>
    /\ saved' = << >>
    /\ UNCHANGED <<dom, session, initTask>>

\* ---------------------------------------------------------------- downloadDocx
\* Mutant: a URL of exactly 8000 characters counts as too long.
URL_LIMIT_inclusive == 8000 - 1

\* if (url.length > 8000)
URL_LIMIT == 8000

\* catch (e) { showToast(...) } finally { setProcessing($btnDocx, false) }
downloadDocx_catch(task, invoked, message) ==
    /\ notified' = <<TOAST_DOWNLOAD_ERR>>
    /\ setProcessing("btnDocx", FALSE)
    /\ ev' = Ev("downloadDocx", "", invoked, "done",
                [task EXCEPT !.pc = "done", !.error = message,
                             !.notes = Append(@, TOAST_DOWNLOAD_ERR)])
    /\ saved' = << >>

\* downloadDocx past its guard, up to the await of fetch; encodeURIComponent
\* may throw before any request is made.
downloadDocx_start ==
    /\ BagCardinality(tasks) < MaxPending
    /\ IF Malformed(editorValue)
       THEN /\ downloadDocx_catch(Task("downloadDocx", "", "btnDocx", "start", << >>, << >>),
                                  TRUE, URI_MALFORMED)
            /\ sent' = << >>
            /\ UNCHANGED tasks
       ELSE LET text   == encodeURIComponent(editorValue)
                url    == API_BASE \o "/api/job/" \o TOKEN \o "/docx?text="
                length == Len(url) + Length(text)
                req    == IF length > URL_LIMIT
                          THEN Request("GET", API_BASE \o "/api/job/" \o TOKEN \o "/docx",
                                       << >>, << >>)
                          ELSE Request("GET", url, <<text>>, << >>)
            IN /\ setProcessing("btnDocx", TRUE)
               /\ tasks' = Spawn(Task("downloadDocx", "", "btnDocx", "fetch", <<req>>, << >>))
               /\ sent' = <<req>>
               /\ ev' = Ev("downloadDocx", "", TRUE, "pending", NoCall)
               /\ notified' = << >>
               /\ saved' = << >>
    /\ UNCHANGED <<dom, session, editorValue, initTask>>

\* Mutant: no guard.
downloadDocx_unguarded == downloadDocx_start

downloadDocx ==
    IF isProcessing THEN Dropped("downloadDocx", "") ELSE downloadDocx_start

\* fetch settles; if (!resp.ok) throw new Error('Download failed')
downloadDocx_fetch(t) ==
    /\ t.op = "downloadDocx"
    /\ t.pc = "fetch"
    /\ \/ /\ downloadDocx_catch(t, FALSE, FETCH_FAILED)
          /\ tasks' = Remove(t)
       \/ \E resp \in Responses :
            IF resp.ok
            THEN /\ tasks' = Resume(t, [t EXCEPT !.pc = "blob", !.resp = resp])
                 /\ ev' = Ev("downloadDocx", "", FALSE, "pending", NoCall)
                 /\ notified' = << >>
                 /\ saved' = << >>
                 /\ UNCHANGED buttons
            ELSE /\ downloadDocx_catch([t EXCEPT !.resp = resp], FALSE, DOWNLOAD_FAILED)
                 /\ tasks' = Remove(t)
    /\ sent' = << >>
    /\ UNCHANGED <<dom, session, editorValue, initTask>>

\* Mutant: the temporary link is clicked twice.
downloadBlob_twice(filename) == saved' = <<filename, filename>>

\* downloadBlob(blob, filename): one click on a temporary link, which is
\* released at once.
downloadBlob(filename) == saved' = <<filename>>

\* resp.blob() settles: the file is saved, or the body could not be read.
downloadDocx_blob(t) ==
    /\ t.op = "downloadDocx"
    /\ t.pc = "blob"
    /\ \/ /\ downloadBlob("result.docx")
          /\ notified' = <<TOAST_DOWNLOADED>>
          /\ setProcessing("btnDocx", FALSE)
          /\ Return(t, [t EXCEPT !.saves = @ + 1,
                                        !.notes = Append(@, TOAST_DOWNLOADED)])
       \/ /\ downloadDocx_catch(t, FALSE, FETCH_FAILED)
          /\ tasks' = Remove(t)
    /\ sent' = << >>
    /\ UNCHANGED <<dom, session, editorValue, initTask>>

\* ---------------------------------------------------------------- copyText
\* copyText up to the await of navigator.clipboard.writeText; without the
\* clipboard API the call throws at once and the catch block copies by
\* execCommand.
copyText ==
    /\ BagCardinality(tasks) < MaxPending
    /\ \/ /\ tasks' = Spawn(Task("copyText", "", "btnCopy", "clipboard", << >>, << >>))
          /\ ev' = Ev("copyText", "", TRUE, "pending", NoCall)
          /\ notified' = << >>
       \/ /\ notified' = <<TOAST_COPIED>>
          /\ ev' = Ev("copyText", "", TRUE, "done",
                      [Task("copyText", "", "btnCopy", "done", << >>, <<TOAST_COPIED>>)
                         EXCEPT !.via = "execCommand"])
          /\ UNCHANGED tasks
    /\ sent' = << >>
    /\ saved' = << >>
    /\ UNCHANGED <<dom, session, editorValue, buttons, initTask>>

\* Mutant: a rejected writeText is reported as an error, without the fallback.
copyText_settle_noFallback(t) ==
    /\ t.op = "copyText"
    /\ t.pc = "clipboard"
    /\ \/ /\ Return(t, [t EXCEPT !.via = "clipboard", !.notes = Append(@, TOAST_COPIED)])
          /\ notified' = <<TOAST_COPIED>>
       \/ /\ Return(t, [t EXCEPT !.error = "NotAllowedError",
                                 !.notes = Append(@, ErrorToast("NotAllowedError"))])
          /\ notified' = <<ErrorToast("NotAllowedError")>>
    /\ sent' = << >>
    /\ saved' = << >>
    /\ UNCHANGED <<dom, session, editorValue, buttons, initTask>>

\* writeText settles: resolved, or rejected and the catch block copies by execCommand.
copyText_settle(t) ==
    /\ t.op = "copyText"
    /\ t.pc = "clipboard"
    /\ \E via \in {"clipboard", "execCommand"} :
         Return(t, [t EXCEPT !.via = via, !.notes = Append(@, TOAST_COPIED)])
    /\ notified' = <<TOAST_COPIED>>
    /\ sent' = << >>
    /\ saved' = << >>
    /\ UNCHANGED <<dom, session, editorValue, buttons, initTask>>

\* ---------------------------------------------------------------- the user
\* The user types in the editor once the app is shown (the input listener of
\* init); a disabled element takes no input.
Edit(t) ==
    /\ appDisplay = "flex"
    /\ "editor" \notin Disabled
    /\ t # editorValue
    /\ editorValue' = t
    /\ ev' = Ev("edit", "", TRUE, "done", NoCall)
    /\ sent' = << >>
    /\ notified' = << >>
    /\ saved' = << >>
    /\ UNCHANGED <<dom, session, buttons, initTask, tasks>>

\* The handlers are callable once the script has run, that is after init's first run.
Booted == initTask.pc # "boot"

Next ==
    \/ init
    \/ init_fetch
    \/ init_json
    \/ Booted /\ \E action \in Actions : runAction(action)
    \/ \E t \in Pending : runAction_fetch(t)
    \/ \E t \in Pending : runAction_json(t)
    \/ Booted /\ downloadDocx
    \/ \E t \in Pending : downloadDocx_fetch(t)
    \/ \E t \in Pending : downloadDocx_blob(t)
    \/ Booted /\ copyText
    \/ \E t \in Pending : copyText_settle(t)
    \/ \E t \in Texts : Edit(t)

Spec == Init /\ [][Next]_vars

\* The steps a promise's settling triggers: of init, of the operations on
\* the network, of copyText.
InitSettle == init \/ init_fetch \/ init_json
NetSettle ==
    \E t \in Pending :
        \/ runAction_fetch(t)
        \/ runAction_json(t)
        \/ downloadDocx_fetch(t)
        \/ downloadDocx_blob(t)
CopySettle == \E t \in Pending : copyText_settle(t)

\* The script runs init at once, and every promise a coroutine awaits (fetch,
\* the reading of a body, the clipboard) settles in the end.
Fairness == WF_vars(InitSettle) /\ WF_vars(NetSettle) /\ WF_vars(CopySettle)

FairSpec == Spec /\ Fairness

\* ---------------------------------------------------------------- session states
\* The panel on screen: the spinner, the app, or the error.
Loading == loadingDisplay # "none"
Ready   == appDisplay # "none"
Error   == errorDisplay # "none"

\* The operations the processing flag serializes, and their pending coroutines.
NetOps   == {"runAction", "downloadDocx"}
InFlight == BagCardinality([t \in {x \in Pending : x.op \in NetOps} |-> tasks[t]])

\* ---------------------------------------------------------------- claims

\* C1: in every reachable state at most one runAction / downloadDocx is in
\* flight, and isProcessing is true exactly while one is between its start
\* and its completion.
C1_SingleInFlight ==
    /\ InFlight <= 1
    /\ isProcessing <=> InFlight > 0

\* An operation is in flight and a second invocation has just been turned away.
C1_Witness ==
    /\ isProcessing
    /\ InFlight = 1
    /\ ev.phase = "dropped"

\* C2: a call of runAction or downloadDocx made while isProcessing is true
\* issues no request, emits no notification, saves nothing and changes no
\* state of the session.
C2_DroppedNoEffect ==
    [][(isProcessing /\ ev'.invoked /\ ev'.op \in NetOps) =>
         /\ ev'.phase = "dropped"
         /\ sent' = << >>
         /\ notified' = << >>
         /\ saved' = << >>
         /\ UNCHANGED <<editorValue, originalText, currentMode, isProcessing, params,
                        dom, btnDisabled, btnProcessing, initTask, tasks>>]_vars

\* downloadDocx was called while a runAction request was pending.
C2_Witness ==
    /\ ev.phase = "dropped"
    /\ ev.op = "downloadDocx"
    /\ isProcessing
    /\ \E t \in Pending : t.op = "runAction" /\ t.pc = "fetch"

\* C3: every runAction / downloadDocx that returns leaves isProcessing false,
\* whatever the path; isProcessing stays true while the operation is pending;
\* and, every network call settling, isProcessing true leads to false.
C3_ProcessingReset ==
    /\ []((ev.phase = "done" /\ ev.op \in NetOps) => ~isProcessing)
    /\ [](InFlight > 0 => isProcessing)
    /\ (isProcessing ~> ~isProcessing)

\* An operation has just ended on a non-success response, the flag reset.
C3_Witness ==
    /\ ev.phase = "done"
    /\ ev.op \in NetOps
    /\ ev.task.resp.kind = "response"
    /\ ~ev.task.resp.ok
    /\ ev.task.error # ""
    /\ ~isProcessing

\* C4: in a session without access token or API base, init moves the session
\* from Loading to Error with the missing-access-link message and issues no
\* request.
C4_MissingAccessError ==
    (~HasToken \/ params.token = "" \/ API_BASE = "") =>
        /\ initTask.reqs = << >>
        /\ ev.op = "init" => sent = << >>
        /\ IF initTask.pc = "boot"
           THEN Loading /\ ~Error /\ ~Ready
           ELSE /\ initTask.pc = "done"
                /\ Error /\ ~Loading /\ ~Ready
                /\ errorMsg = MSG_NO_TOKEN

\* init has run in a session whose link carries no token.
C4_Witness ==
    /\ ~HasToken
    /\ initTask.pc = "done"
    /\ Error

\* C5: right after a load that got a JSON object, the session is Ready with
\* the editor and originalText holding the server's text, currentMode the
\* server's mode (the empty string for an absent field) and isProcessing false.
C5_LoadedState ==
    (ev.op = "init" /\ ev.phase = "done" /\ ev.task.error = "" /\ ev.task.json.kind = "object") =>
        LET d == ev.task.json.data IN
        /\ Ready /\ ~Loading /\ ~Error
        /\ originalText = (IF "text" \in DOMAIN d THEN d.text ELSE Empty)
        /\ editorValue = originalText
        /\ currentMode = (IF "mode" \in DOMAIN d THEN d.mode ELSE "")
        /\ ~isProcessing

\* C6: a failed load (fetch rejected, non-success response, unreadable body)
\* ends in Error, never in Ready, with the message the error code selects; the
\* code is the one the error body carries.
C6_LoadFailureMessage ==
    /\ initTask.error # "" =>
          /\ Error /\ ~Ready /\ ~Loading
          /\ errorMsg = (CASE initTask.error = "invalid_token" -> MSG_LINK_EXPIRED
                           [] initTask.error = "not_found" -> MSG_NOT_FOUND
                           [] OTHER -> MSG_LOAD_FAILED \o initTask.error)
    /\ (ev.op = "init" /\ ev.phase = "done" /\ ~ev.invoked) =>
          /\ (ev.task.resp.kind = "none" \/ ~ev.task.resp.ok \/ ev.task.json.kind = "invalid")
                => initTask.error # ""
          /\ (/\ ev.task.resp.kind = "response"
              /\ ~ev.task.resp.ok
              /\ ev.task.json.kind = "object"
              /\ "error" \in DOMAIN ev.task.json.data)
                => initTask.error = ev.task.json.data.error

\* The load failed with not_found.
C6_Witness ==
    /\ Error
    /\ initTask.error = "not_found"
    /\ errorMsg = MSG_NOT_FOUND

\* C7: runAction called when the session is not Ready issues no request, emits
\* no notification and changes no state; in Error no request is issued and
\* no session state changes.
C7_NotReadyNoOp ==
    [][/\ (~Ready /\ ev'.invoked /\ ev'.op = "runAction") =>
            /\ sent' = << >>
            /\ notified' = << >>
            /\ UNCHANGED <<editorValue, originalText, currentMode, isProcessing, dom, tasks>>
       /\ Error =>
            /\ sent' = << >>
            /\ UNCHANGED <<editorValue, originalText, currentMode, isProcessing, dom>>]_vars

\* C8: the session starts in Loading, shows exactly one panel at any time,
\* never leaves Ready or Error once there, and leaves Loading in the end.
C8_TerminalStates ==
    /\ Loading
    /\ [](Cardinality({b \in {<<1, Loading>>, <<2, Ready>>, <<3, Error>>} : b[2]}) = 1)
    /\ [][(Ready => Ready') /\ (Error => Error')]_vars
    /\ <>(~Loading)

\* A failed runAction has left the session Ready.
C8_Witness ==
    /\ Ready
    /\ ev.op = "runAction"
    /\ ev.phase = "done"
    /\ ev.task.error # ""

\* C9: every accepted runAction(action) issues one POST to
\* API_BASE/api/job/TOKEN/action whose body is {action, text} with the
\* editor's text as it is at the call.
C9_RequestCarriesCurrentText ==
    [][(ev'.invoked /\ ev'.op = "runAction" /\ ev'.phase # "dropped") =>
         sent' = <<[method |-> "POST",
                    url    |-> API_BASE \o "/api/job/" \o TOKEN \o "/action",
                    query  |-> << >>,
                    body   |-> <<[action |-> ev'.action, text |-> editorValue]>>]>>]_vars

\* A runAction has just sent a text that differs from the text as loaded.
C9_Witness ==
    /\ Ready
    /\ ev.op = "runAction"
    /\ ev.invoked
    /\ ev.phase = "pending"
    /\ Len(sent) = 1
    /\ sent[1].body[1].text = editorValue
    /\ editorValue # originalText

\* C10: when the runAction request succeeds with a JSON object, a non-empty
\* text field becomes the editor's text and one success notification specific
\* to the action is emitted; with the text field absent the editor's text is
\* unchanged and nothing is notified; isProcessing ends false in both cases.
C10_SuccessApplied ==
    [][(/\ ev'.op = "runAction"
        /\ ev'.phase = "done"
        /\ ev'.task.resp.ok
        /\ ev'.task.json.kind = "object") =>
         LET d == ev'.task.json.data IN
         /\ ~isProcessing'
         /\ ("text" \in DOMAIN d /\ d.text # Empty) =>
               /\ editorValue' = d.text
               /\ notified' = <<[text |-> IF ev'.action = "shorten"
                                           THEN "(cut) Tekst sokrashchyon!"
                                           ELSE "(book) Tekst rasshiren!",
                                  type |-> "success"]>>
         /\ ("text" \notin DOMAIN d) =>
               /\ editorValue' = editorValue
               /\ notified' = << >>]_vars

\* A shorten request has just succeeded with a text, now the editor's.
C10_Witness ==
    /\ ev.op = "runAction"
    /\ ev.action = "shorten"
    /\ ev.phase = "done"
    /\ ev.task.json.kind = "object"
    /\ "text" \in DOMAIN ev.task.json.data
    /\ ev.task.resp.ok
    /\ editorValue = ev.task.json.data.text
    /\ editorValue # ev.task.reqs[1].body[1].text
    /\ Len(notified) = 1
    /\ notified[1].type = "success"

\* C11: when a runAction call fails (the request is rejected, the response is
\* not a success, or its body cannot be used), the step that ends the call
\* leaves the editor's text and the panels as they were (a Ready session stays
\* Ready), ends with isProcessing false, and over the whole call exactly one
\* notification of type error was shown: the generic processing message for
\* the code llm_error, the raw code behind the cross mark for any other.
C11_FailureReported ==
    [][(ev'.op = "runAction" /\ ev'.phase = "done" /\ ev'.task.error # "") =>
         /\ editorValue' = editorValue
         /\ UNCHANGED dom
         /\ (Ready => Ready')
         /\ ~isProcessing'
         /\ Cardinality({i \in DOMAIN ev'.task.notes :
                            ev'.task.notes[i].type = "error"}) = 1
         /\ Cardinality({i \in DOMAIN ev'.task.notes :
                            ev'.task.notes[i].type = "success"}) = 0
         /\ notified' =
              <<[text |-> IF ev'.task.error = "llm_error"
                          THEN "(x) Oshibka obrabotki. Poprobuyte eshchyo raz."
                          ELSE "(x) " \o ev'.task.error,
                 type |-> "error"]>>]_vars

\* A runAction of a Ready session has just failed with the code llm_error.
C11_Witness ==
    /\ Ready
    /\ ev.op = "runAction"
    /\ ev.phase = "done"
    /\ ev.task.error = "llm_error"
    /\ ~ev.task.resp.ok
    /\ ~isProcessing
    /\ notified = <<TOAST_LLM_ERROR>>

\* C12: every accepted call of downloadDocx issues exactly one request, chosen
\* by the length of the candidate URL (API base, /api/job/{token}/docx?text=,
\* the percent-encoded editor text): longer than 8000 characters, a GET of
\* /api/job/{token}/docx with no text parameter; otherwise a GET of the
\* candidate URL, which carries the encoded editor text.
C12_TransportByLength ==
    [][(ev'.invoked /\ ev'.op = "downloadDocx" /\ ev'.phase # "dropped") =>
         LET base   == API_BASE \o "/api/job/" \o TOKEN \o "/docx"
             text   == encodeURIComponent(editorValue)
             length == Len(base \o "?text=") + Length(text)
         IN /\ Len(sent') = 1
            /\ length > 8000 =>
                 sent' = <<[method |-> "GET", url |-> base,
                            query |-> << >>, body |-> << >>]>>
            /\ length <= 8000 =>
                 sent' = <<[method |-> "GET", url |-> base \o "?text=",
                            query |-> <<text>>, body |-> << >>]>>]_vars

\* The length of the URL that downloadDocx builds from the editor's text.
CandidateLength ==
    Len(API_BASE \o "/api/job/" \o TOKEN \o "/docx?text=")
      + Length(encodeURIComponent(editorValue))

\* The two requests of downloadDocx for the editor's text.
CanonicalGet ==
    [method |-> "GET", url |-> API_BASE \o "/api/job/" \o TOKEN \o "/docx",
     query |-> << >>, body |-> << >>]

InlineGet ==
    [method |-> "GET", url |-> API_BASE \o "/api/job/" \o TOKEN \o "/docx?text=",
     query |-> <<encodeURIComponent(editorValue)>>, body |-> << >>]

\* C13 as stated: a URL of exactly 8000 characters takes the request without
\* the text parameter, one of 7999 characters or fewer carries the text; both
\* send a request and both calls end with isProcessing false.
C13_Boundary ==
    /\ [][(ev'.invoked /\ ev'.op = "downloadDocx" /\ ev'.phase # "dropped"
             /\ ~Malformed(editorValue)) =>
            /\ CandidateLength = 8000 => sent' = <<CanonicalGet>>
            /\ CandidateLength <= 7999 => sent' = <<InlineGet>>]_vars
    /\ [](ev.op = "downloadDocx" /\ ev.phase = "done" => ~isProcessing)

\* C13, amended: a URL of exactly 8001 characters takes the request without
\* the text parameter, one of exactly 8000 characters or fewer carries the
\* text inline; both send that one request and both calls end with
\* isProcessing false.
C13_BoundaryExceeds ==
    /\ [][(ev'.invoked /\ ev'.op = "downloadDocx" /\ ev'.phase # "dropped"
             /\ ~Malformed(editorValue)) =>
            /\ CandidateLength = 8001 => sent' = <<CanonicalGet>>
            /\ CandidateLength = 8000 => sent' = <<InlineGet>>
            /\ CandidateLength <= 7999 => sent' = <<InlineGet>>
            /\ Len(sent') = 1
            /\ isProcessing']_vars
    /\ [](ev.op = "downloadDocx" /\ ev.phase = "done" => ~isProcessing)

\* A download whose URL was exactly 8000 characters long has ended; its
\* request carried the text.
C13_Witness ==
    /\ ev.op = "downloadDocx"
    /\ ev.phase = "done"
    /\ ~isProcessing
    /\ Len(ev.task.reqs) = 1
    /\ ev.task.reqs[1].query # << >>
    /\ Len(ev.task.reqs[1].url) + Length(ev.task.reqs[1].query[1]) = 8000

\* C14: on either path a download call whose response is a success and whose
\* body is read saves the file result.docx exactly once and shows one
\* success notification; a call whose request could not be made or was
\* rejected, whose response is not a success, or whose body could not be
\* read, saves nothing and shows exactly one generic failure notification.
\* Either way the call returns (no error leaves it), the panels are as they
\* were (a Ready session stays Ready) and isProcessing is false.
C14_DownloadOutcome ==
    [][(ev'.op = "downloadDocx" /\ ev'.phase = "done") =>
         LET task == ev'.task IN
         /\ (task.error = "") =>
               /\ task.resp.kind = "response" /\ task.resp.ok
               /\ saved' = <<"result.docx">>
               /\ task.saves = 1
               /\ notified' = <<[text |-> "(doc) Fayl skachan!", type |-> "success"]>>
               /\ task.notes = notified'
         /\ (task.resp.kind = "response" /\ ~task.resp.ok) => task.error # ""
         /\ (task.error # "") =>
               /\ saved' = << >>
               /\ task.saves = 0
               /\ notified' = <<[text |-> "(x) Oshibka skachivaniya", type |-> "error"]>>
               /\ task.notes = notified'
         /\ task.pc = "done"
         /\ Len(task.reqs) <= 1
         /\ ~isProcessing'
         /\ UNCHANGED <<dom, editorValue>>
         /\ (Ready => Ready')]_vars

\* A download of a Ready session that took the path without the text
\* parameter has just saved the file.
C14_Witness ==
    /\ Ready
    /\ ev.op = "downloadDocx"
    /\ ev.phase = "done"
    /\ ev.task.error = ""
    /\ ev.task.reqs[1].query = << >>
    /\ saved = <<"result.docx">>
    /\ notified = <<TOAST_DOWNLOADED>>
    /\ ~isProcessing

\* C15: the editor's text changes only by the load itself, by a user edit,
\* and by a runAction that succeeded with a non-empty text (which becomes the
\* editor's text); downloadDocx, copyText, a dropped call and every failed
\* call leave it as it was.  Once init has returned, no step changes
\* originalText, currentMode or the session parameters (access token, API
\* base); the parameters never change at all.
C15_Frame ==
    [][/\ (editorValue' # editorValue) =>
            \/ ev'.op = "edit"
            \/ /\ ev'.op = "init"
               /\ ev'.phase = "done"
               /\ initTask.pc = "json"
            \/ /\ ev'.op = "runAction"
               /\ ev'.phase = "done"
               /\ ev'.task.error = ""
               /\ ev'.task.resp.ok
               /\ ev'.task.json.kind = "object"
               /\ "text" \in DOMAIN ev'.task.json.data
               /\ ev'.task.json.data.text # Empty
               /\ editorValue' = ev'.task.json.data.text
       /\ (ev'.op \in {"downloadDocx", "copyText"}) => editorValue' = editorValue
       /\ (ev'.phase = "dropped") => editorValue' = editorValue
       /\ (ev'.phase = "done" /\ ev'.op \in {"runAction", "downloadDocx"}
             /\ ev'.task.error # "") => editorValue' = editorValue
       /\ (initTask.pc = "done") => UNCHANGED <<originalText, currentMode>>
       /\ UNCHANGED params]_vars

\* Long after the load a runAction has replaced the editor's text, which now
\* differs from the text as loaded; the load's mode is still there.
C15_Witness ==
    /\ initTask.pc = "done"
    /\ Ready
    /\ ev.op = "runAction"
    /\ ev.phase = "done"
    /\ ev.task.error = ""
    /\ ev.task.json.kind = "object"
    /\ "text" \in DOMAIN ev.task.json.data
    /\ editorValue = ev.task.json.data.text
    /\ editorValue # originalText
    /\ editorValue # ev.task.reqs[1].body[1].text
    /\ ev.task.reqs[1].body[1].text # originalText
    /\ originalText # Empty
    /\ currentMode # ""

\* C16: in every Ready state, whether isProcessing is true or false, the user
\* can edit: every text other than the editor's can be typed.  An edit
\* changes the editor's text and nothing else of the session: it issues no
\* request, shows and saves nothing, and leaves isProcessing, the buttons, the
\* panels and the pending calls as they were.
C16_EditAlwaysEnabled ==
    /\ [](Ready => \A t \in Texts \ {editorValue} : ENABLED Edit(t))
    /\ [][ev'.op = "edit" =>
            /\ editorValue' # editorValue
            /\ sent' = << >>
            /\ notified' = << >>
            /\ saved' = << >>
            /\ UNCHANGED <<isProcessing, btnDisabled, btnProcessing>>
            /\ UNCHANGED <<dom, session, initTask, tasks>>]_vars

\* The user has just edited the text of a Ready session while a runAction is
\* pending.
C16_Witness ==
    /\ Ready
    /\ ev.op = "edit"
    /\ isProcessing
    /\ \E t \in Pending : t.op = "runAction" /\ t.reqs[1].body[1].text # editorValue

\* C17: every call of copyText is accepted and ends, by the clipboard API or
\* by the execCommand fallback, with exactly one notification, of type
\* success; no step of copyText shows an error notification, issues a request
\* or saves a file, and none changes the editor's text, isProcessing, the
\* buttons or the panels.
C17_CopyAlwaysSucceeds ==
    /\ [][ev'.op = "copyText" =>
            /\ ev'.phase \in {"pending", "done"}
            /\ sent' = << >>
            /\ saved' = << >>
            /\ UNCHANGED <<editorValue, isProcessing, btnDisabled, btnProcessing>>
            /\ UNCHANGED <<dom, session>>
            /\ \A i \in DOMAIN notified' : notified'[i].type # "error"
            /\ (ev'.phase = "pending") => notified' = << >>
            /\ (ev'.phase = "done") =>
                  /\ notified' = <<[text |-> "(ok) Skopirovano!", type |-> "success"]>>
                  /\ ev'.task.notes = notified'
                  /\ ev'.task.reqs = << >>
                  /\ ev'.task.error = ""
                  /\ ev'.task.via \in {"clipboard", "execCommand"}]_vars
    /\ [](\A t \in Pending : t.op = "copyText" => t.notes = << >>)
    /\ ((\E t \in Pending : t.op = "copyText")
          ~> (ev.op = "copyText" /\ ev.phase = "done" /\ notified = <<TOAST_COPIED>>))

\* A copy whose writeText was rejected has ended by the fallback, while a
\* runAction is pending.
C17_Witness ==
    /\ ev.op = "copyText"
    /\ ev.phase = "done"
    /\ ~ev.invoked
    /\ ev.task.via = "execCommand"
    /\ notified = <<TOAST_COPIED>>
    /\ isProcessing

\* C18: nothing is retried.  init issues at most one GET; every accepted
\* runAction issues exactly one POST and every accepted downloadDocx exactly
\* one GET, whether the call succeeds or fails; a request leaves only in the
\* run that accepts the call, never when a promise settles; and a failed
\* call has shown exactly one error notification when it returns.
C18_NoRetries ==
    /\ [](Len(initTask.reqs) <= 1)
    /\ [](\A t \in Pending :
             /\ t.op = "runAction" => Len(t.reqs) = 1 /\ t.reqs[1].method = "POST"
             /\ t.op = "downloadDocx" => Len(t.reqs) = 1 /\ t.reqs[1].method = "GET")
    /\ []((ev.phase = "done" /\ ev.op = "runAction") =>
             Len(ev.task.reqs) = 1 /\ ev.task.reqs[1].method = "POST")
    /\ []((ev.phase = "done" /\ ev.op = "downloadDocx") =>
             Len(ev.task.reqs) = 1 /\ ev.task.reqs[1].method = "GET")
    /\ []((ev.phase = "done" /\ ev.op \in {"runAction", "downloadDocx"}
             /\ ev.task.error # "") =>
             Cardinality({i \in DOMAIN ev.task.notes : ev.task.notes[i].type = "error"}) = 1)
    /\ [][/\ Len(sent') <= 1
          /\ sent' # << >> => ev'.invoked /\ ev'.phase = "pending"]_vars

\* The calls of apiGet (by init) and apiPost (by runAction) that have ended
\* after fetch resolved with a response.
ApiCallEnded ==
    /\ ev.phase = "done"
    /\ ev.op \in {"init", "runAction"}
    /\ ev.task.resp.kind = "response"

\* What C19 says of a non-success response: the call throws; the message is
\* the error string of the body when the body is an object that carries one,
\* and "HTTP <status>" when the body is absent or not JSON; the caller
\* catches that very error.
NonSuccessContract ==
    (ApiCallEnded /\ ~ev.task.resp.ok) =>
        /\ ~ev.task.api.returned
        /\ ev.task.api.error # ""
        /\ ev.task.error = ev.task.api.error
        /\ (ev.task.json.kind = "object" /\ "error" \in DOMAIN ev.task.json.data
              /\ ev.task.json.data.error # "") =>
              ev.task.api.error = ev.task.json.data.error
        /\ (ev.task.json.kind = "invalid") =>
              ev.task.api.error = "HTTP " \o ToString(ev.task.resp.status)

\* C19 as stated: the contract of the non-success responses, and every
\* success response is returned without an error, by apiGet and by apiPost.
C19_ErrorContract ==
    /\ NonSuccessContract
    /\ (ApiCallEnded /\ ev.task.resp.ok) => ev.task.api.returned

\* C19, amended: the contract of the non-success responses; apiGet returns
\* every success response without an error; apiPost returns the decoded body
\* of a success response when the body is valid JSON, and fails with the
\* decoder's error when it is not.
C19_ErrorContractDecoded ==
    /\ NonSuccessContract
    /\ (ApiCallEnded /\ ev.task.resp.ok /\ ev.op = "init") => ev.task.api.returned
    /\ (ApiCallEnded /\ ev.task.resp.ok /\ ev.op = "runAction") =>
          /\ ev.task.api.returned <=> ev.task.json.kind # "invalid"
          /\ ~ev.task.api.returned =>
                /\ ev.task.api.error = "Unexpected end of JSON input"
                /\ ev.task.error = ev.task.api.error

\* A runAction has ended on a 500 response without a JSON body: the error is
\* "HTTP 500".
C19_Witness ==
    /\ ApiCallEnded
    /\ ev.op = "runAction"
    /\ ev.task.resp.status = 500
    /\ ev.task.json.kind = "invalid"
    /\ ev.task.api = [returned |-> FALSE, error |-> "HTTP 500"]
    /\ ev.task.error = "HTTP 500"

\* The texts carried by the requests of the pending runAction calls.
PendingActionTexts ==
    {t.reqs[1].body[1].text : t \in {x \in Pending : x.op = "runAction"}}

\* C20: the request of a pending runAction carries the editor's text of the
\* moment of dispatch and no edit changes it.  When the call ends on a
\* success response with a non-empty text, that text becomes the editor's
\* text whatever the user typed meanwhile; when it ends on a failure or on a
\* response without a text (or with an empty one), the editor keeps what the
\* user typed.
C20_InFlightEdits ==
    /\ [][(PendingActionTexts = {} /\ PendingActionTexts' # {}) =>
             PendingActionTexts' = {editorValue}]_vars
    /\ [][(PendingActionTexts # {} /\ PendingActionTexts' # {}) =>
             PendingActionTexts' = PendingActionTexts]_vars
    /\ [][ev'.op = "edit" => tasks' = tasks /\ sent' = << >>]_vars
    /\ [][(ev'.op = "runAction" /\ ev'.phase = "done") =>
            LET task == ev'.task
                data == task.json.data
            IN /\ task.reqs[1].body[1].text \in PendingActionTexts
               /\ IF /\ task.resp.ok
                     /\ task.json.kind = "object"
                     /\ "text" \in DOMAIN data
                     /\ data.text # Empty
                  THEN editorValue' = data.text
                  ELSE editorValue' = editorValue]_vars

\* A runAction of a Ready session has ended on a failure after the user
\* edited the text during the flight: the editor holds the edited text, not
\* the text that was sent.
C20_Witness ==
    /\ Ready
    /\ ev.op = "runAction"
    /\ ev.phase = "done"
    /\ ev.task.error # ""
    /\ ev.task.resp.kind = "response"
    /\ editorValue # ev.task.reqs[1].body[1].text
    /\ editorValue # originalText
====
